---------------------------- MODULE Spec2Model ----------------------------
(* Model of fix_whitespace.py: find_python_files, fix_whitespace_in_file  *)
(* and main.  Strings are sequences of one-character strings, a directory *)
(* tree is a set of nodes, the disk is a function from path to content.   *)
EXTENDS Integers, Sequences, FiniteSets, TLC

VARIABLES
    tree,            \* the directory tree under '.': set of [path, dir]
    fs,              \* disk: file path string -> raw file content
    mode,            \* file path string -> "ok" | "noread" | "nowrite" | "wfail"
    run,             \* which run of main this is (1 = first)
    pc,              \* position in main / find_python_files / fix_whitespace_in_file
    stack,           \* os.walk: directories still to visit
    visited,         \* os.walk: directories listed so far (in order)
    python_files,    \* find_python_files: the result list
    queue,           \* main: sorted(python_files)
    idx,             \* main: position of the for loop in queue
    total_w293, total_w291, files_fixed,
    filepath,        \* fix_whitespace_in_file: its argument
    lines, original_lines,
    i,               \* fix_whitespace_in_file: enumerate index (1-based)
    w293_count, w291_count,
    ret,             \* value returned by fix_whitespace_in_file
    stdout,          \* lines printed with print()
    stderr,          \* lines written to sys.stderr
    hits,            \* history: per processed line, the increments <<W293, W291>>
    past,            \* history: per finished run of main, what it did
    disk0,           \* history: the disk when this run of main began
    opened,          \* history: files opened with mode 'w' in this run
    calls            \* history: one record per finished call of fix_whitespace_in_file

vars == <<tree, fs, mode, run, pc, stack, visited, python_files, queue, idx,
          total_w293, total_w291, files_fixed, filepath, lines, original_lines,
          i, w293_count, w291_count, ret, stdout, stderr, hits, past, disk0,
          opened, calls>>

-----------------------------------------------------------------------------
(* Bounds *)
MaxLen == 4          \* longest file content of the single-file trees
MaxMainNodes == 3    \* most nodes of a tree main is run on
MaxNodes == 3        \* most nodes of a tree find_python_files is run on
MaxRuns == 2         \* runs of main in a row

-----------------------------------------------------------------------------
(* Characters and strings *)
SP == " "
TAB == "\t"
CR == "\r"
LF == "\n"

Alphabet == {"a", SP, TAB, CR, LF}

\* str.isspace() on the characters of Alphabet
IsSpace(c) == c \in {SP, TAB, CR, LF}

Front(s) == SubSeq(s, 1, Len(s) - 1)
Last(s) == s[Len(s)]

StartsWith(s, p) == Len(s) >= Len(p) /\ SubSeq(s, 1, Len(p)) = p
EndsWith(s, p) == Len(s) >= Len(p) /\ SubSeq(s, Len(s) - Len(p) + 1, Len(s)) = p

RECURSIVE RStripChars(_, _)
\* str.rstrip(chars): drop trailing characters that are in the set
RStripChars(s, cs) ==
    IF s # <<>> /\ Last(s) \in cs THEN RStripChars(Front(s), cs) ELSE s

RECURSIVE LStripChars(_, _)
LStripChars(s, cs) ==
    IF s # <<>> /\ Head(s) \in cs THEN LStripChars(Tail(s), cs) ELSE s

Whitespace == {c \in Alphabet : IsSpace(c)}
RStrip(s) == RStripChars(s, Whitespace)
Strip(s) == LStripChars(RStrip(s), Whitespace)

\* os.linesep of the platform the script runs on (POSIX)
linesep == <<LF>>

RECURSIVE ReadTranslate(_)
\* text-mode read with newline=None: "\r\n" and a lone "\r" become "\n"
ReadTranslate(s) ==
    IF s = <<>> THEN <<>>
    ELSE IF Head(s) = CR
         THEN IF Len(s) >= 2 /\ s[2] = LF
              THEN <<LF>> \o ReadTranslate(SubSeq(s, 3, Len(s)))
              ELSE <<LF>> \o ReadTranslate(Tail(s))
         ELSE <<Head(s)>> \o ReadTranslate(Tail(s))

RECURSIVE WriteTranslate(_)
\* text-mode write with newline=None: "\n" becomes os.linesep
WriteTranslate(s) ==
    IF s = <<>> THEN <<>>
    ELSE (IF Head(s) = LF THEN linesep ELSE <<Head(s)>>) \o WriteTranslate(Tail(s))

RECURSIVE LineEnd(_)
\* the length of the first line of a decoded text, its "\n" included
LineEnd(s) ==
    IF s = <<>> THEN 0
    ELSE IF Head(s) = LF THEN 1
    ELSE 1 + LineEnd(Tail(s))

RECURSIVE SplitLines(_)
\* cut a decoded text after every "\n"; the last piece may lack one
SplitLines(s) ==
    IF s = <<>> THEN <<>>
    ELSE <<SubSeq(s, 1, LineEnd(s))>> \o SplitLines(SubSeq(s, LineEnd(s) + 1, Len(s)))

\* f.readlines() of a file opened with open(filepath, 'r', encoding='utf-8')
ReadLines(content) == SplitLines(ReadTranslate(content))

RECURSIVE Concat(_)
Concat(ls) == IF ls = <<>> THEN <<>> ELSE Head(ls) \o Concat(Tail(ls))

\* f.writelines(lines) to a file opened with open(filepath, 'w', encoding='utf-8')
WriteLines(ls) == WriteTranslate(Concat(ls))

-----------------------------------------------------------------------------
(* The body of the for loop of fix_whitespace_in_file, for one line *)

IsW293(line) == Strip(line) = <<>> /\ Len(line) > 1

IsW291(line) == RStrip(line) # RStripChars(RStripChars(line, {LF}), {CR, LF})

FixW293(line) == IF EndsWith(line, <<LF>>) THEN <<LF>> ELSE <<>>

\* variant: only the last whitespace character before the terminator is cut
FixW291_OneChar(line) ==
    LET body == RStripChars(line, {CR, LF})
    IN Front(body) \o SubSeq(line, Len(body) + 1, Len(line))

FixW291(line) ==
    IF EndsWith(line, <<CR, LF>>) THEN RStrip(line) \o <<CR, LF>>
    ELSE IF EndsWith(line, <<LF>>) THEN RStrip(line) \o <<LF>>
    ELSE RStrip(line)

\* variant: the second test is an 'if' of its own instead of an 'elif'
FixLine_NoElif(line) ==
    LET first == IF IsW293(line) THEN FixW293(line) ELSE line
    IN [out |-> IF IsW291(line) THEN FixW291(line) ELSE first,
        d293 |-> IF IsW293(line) THEN 1 ELSE 0,
        d291 |-> IF IsW291(line) THEN 1 ELSE 0]

\* what one iteration does: the new line and the two counter increments
FixLine(line) ==
    IF IsW293(line) THEN [out |-> FixW293(line), d293 |-> 1, d291 |-> 0]
    ELSE IF IsW291(line) THEN [out |-> FixW291(line), d293 |-> 0, d291 |-> 1]
    ELSE [out |-> line, d293 |-> 0, d291 |-> 0]

\* variant: the file is rewritten whether or not a line changed
Changed_Always(ls, orig) == TRUE

\* line 44: if lines != original_lines
Changed(ls, orig) == ls # orig

-----------------------------------------------------------------------------
(* File names, directory trees and paths *)

DotPy == <<".", "p", "y">>
Dot == <<".">>
Sep == <<"/">>

N_git == <<".", "g", "i", "t">>
N_pycache == <<"_", "_", "p", "y", "c", "a", "c", "h", "e", "_", "_">>
N_venv == <<"v", "e", "n", "v">>
N_env == <<"e", "n", "v">>
N_build == <<"b", "u", "i", "l", "d">>
N_dist == <<"d", "i", "s", "t">>
N_envs == <<"e", "n", "v", "s">>
N_src == <<"s", "r", "c">>
N_a == <<"a">>

F_a == <<"a", ".", "p", "y">>
F_b == <<"b", ".", "p", "y">>
F_apy == <<"a", "p", "y">>
F_txt == <<"n", ".", "t", "x", "t">>

\* line 60: the names never descended into
SkipDirs == {N_pycache, N_venv, N_env, N_build, N_dist}

\* variant: only the denylist is applied, hidden directories are entered
KeepDir_NoHidden(d) == d \notin SkipDirs

\* line 60: the filter applied to dirs
KeepDir(d) == ~StartsWith(d, Dot) /\ d \notin SkipDirs

\* line 63: if file.endswith('.py')
IsPythonFile(f) == EndsWith(f, DotPy)

\* os.path.join(a, b) on POSIX, for a relative b and an a not ending in "/"
Join(a, b) == a \o Sep \o b

RECURSIVE DirStr(_)
\* the string os.walk('.') gives for the directory with name path d
DirStr(d) == IF d = <<>> THEN Dot ELSE Join(DirStr(Front(d)), Last(d))

FileNodes(t) == {n \in t : ~n.dir}
DirNodes(t) == {n \in t : n.dir}
PathStr(p) == Join(DirStr(Front(p)), Last(p))
FilePaths(t) == {PathStr(n.path) : n \in FileNodes(t)}

\* the names os.scandir lists in directory d, split as os.walk splits them
SubDirs(t, d) == {Last(n.path) : n \in {m \in DirNodes(t) : Front(m.path) = d}}
Files(t, d) == {Last(n.path) : n \in {m \in FileNodes(t) : Front(m.path) = d}}

\* every order in which a directory listing can come back
Orders(S) == {s \in [1..Cardinality(S) -> S] : \A x, y \in 1..Cardinality(S) : x # y => s[x] # s[y]}

\* the trees the model draws from: names for directories under the root,
\* names for directories below those, names for files anywhere
FindUniverse == [rootDirs |-> {N_git, N_pycache, N_venv, N_env, N_build, N_dist, N_envs, N_src},
                 subDirs |-> {N_git, N_env, N_src},
                 files |-> {F_a, F_apy, F_txt}]
MainUniverse == [rootDirs |-> {N_git, N_a}, subDirs |-> {}, files |-> {F_a, F_b}]

ChildrenOf(p, u) ==
    {[path |-> Append(p, f), dir |-> FALSE] : f \in u.files}
    \cup {[path |-> Append(p, d), dir |-> TRUE] :
             d \in (IF p = <<>> THEN u.rootDirs ELSE IF Len(p) = 1 THEN u.subDirs ELSE {})}

Candidates(t, u) ==
    UNION {ChildrenOf(p, u) : p \in {<<>>} \cup {n.path : n \in DirNodes(t)}} \ t

RECURSIVE TreesUpTo(_, _)
TreesUpTo(n, u) ==
    IF n = 0 THEN {{}}
    ELSE LET prev == TreesUpTo(n - 1, u)
         IN prev \cup UNION {{t \cup {c} : c \in Candidates(t, u)} : t \in prev}

Contents(n) == UNION {[1..k -> Alphabet] : k \in 0..n}

\* file contents used in trees of several files: a clean file, and a file
\* with one W293 line and one W291 line
SampleContents == {<<"a", LF>>, <<SP, LF, "a", SP, LF>>}

\* what the platform does with the file: "noread": open(filepath, 'r') or
\* the read raises; "nowrite": open(filepath, 'w') raises; "wfail": the
\* open for writing succeeds and the write of the data raises
Modes == {"ok", "noread", "nowrite", "wfail"}

\* files of a tree of several files: the clean file is readable (it is never
\* opened for writing), the file with trailing whitespace meets every outcome
SampleFiles ==
    {[content |-> c, mode |-> m] : c \in SampleContents, m \in Modes}
        \ {[content |-> <<"a", LF>>, mode |-> m] : m \in Modes \ {"ok"}}

-----------------------------------------------------------------------------
(* sorted(): Python orders strings by code point *)

CodePoints == <<".", "/", "_", "a", "b", "c", "d", "e", "g", "h", "i", "l",
                "n", "p", "r", "s", "t", "u", "v", "x", "y">>
Ord(c) == CHOOSE k \in 1..Len(CodePoints) : CodePoints[k] = c

StrLess(a, b) ==
    \E k \in 1..(Len(b)) :
        /\ k <= Len(a) + 1
        /\ SubSeq(a, 1, k - 1) = SubSeq(b, 1, k - 1)
        /\ (k = Len(a) + 1 \/ Ord(a[k]) < Ord(b[k]))

RECURSIVE Insert(_, _)
Insert(x, s) ==
    IF s = <<>> THEN <<x>>
    ELSE IF StrLess(x, Head(s)) THEN <<x>> \o s
    ELSE <<Head(s)>> \o Insert(x, Tail(s))

RECURSIVE Sorted(_)
\* line 81: sorted(python_files)
Sorted(s) == IF s = <<>> THEN <<>> ELSE Insert(Last(s), Sorted(Front(s)))

-----------------------------------------------------------------------------
(* Output lines *)

Out(kind, path, a, b) == [kind |-> kind, path |-> path, a |-> a, b |-> b]

SummaryLines(n, fixed, t293, t291) ==
    << Out("Summary", <<>>, 0, 0),
       Out("Files processed", <<>>, n, 0),
       Out("Files fixed", <<>>, fixed, 0),
       Out("Total W293", <<>>, t293, 0),
       Out("Total W291", <<>>, t291, 0),
       Out("Total", <<>>, t293 + t291, 0) >>

Call(path, a, b, failed) == [path |-> path, a |-> a, b |-> b, failed |-> failed]

-----------------------------------------------------------------------------
(* Initial states *)

SingleFile == {[path |-> <<F_a>>, dir |-> FALSE]}

\* everything but the environment, at the entry of find_python_files
Entry ==
    /\ run = 1
    /\ pc = "walk"
    /\ stack = << <<>> >>
    /\ visited = <<>>
    /\ python_files = <<>>
    /\ queue = <<>>
    /\ idx = 0
    /\ total_w293 = 0 /\ total_w291 = 0 /\ files_fixed = 0
    /\ filepath = <<>>
    /\ lines = <<>> /\ original_lines = <<>>
    /\ i = 0
    /\ w293_count = 0 /\ w291_count = 0
    /\ ret = <<0, 0>>
    /\ stdout = <<>> /\ stderr = <<>>
    /\ hits = <<>>
    /\ past = <<>>
    /\ disk0 = fs
    /\ opened = {}
    /\ calls = <<>>

Init ==
    /\ \/ /\ tree = SingleFile
          /\ fs \in [FilePaths(tree) -> Contents(MaxLen)]
          /\ mode \in [FilePaths(tree) -> Modes]
       \/ /\ tree \in TreesUpTo(MaxMainNodes, MainUniverse)
          /\ \E f \in [FilePaths(tree) -> SampleFiles] :
                /\ fs = [p \in FilePaths(tree) |-> f[p].content]
                /\ mode = [p \in FilePaths(tree) |-> f[p].mode]
    /\ Entry

InitFind ==
    /\ tree \in TreesUpTo(MaxNodes, FindUniverse)
    /\ fs = [p \in FilePaths(tree) |-> <<"a", LF>>]
    /\ mode = [p \in FilePaths(tree) |-> "ok"]
    /\ Entry

-----------------------------------------------------------------------------
(* find_python_files *)

\* one iteration of the for loop over os.walk(root_dir)
WalkStep ==
    /\ pc = "walk"
    /\ stack # <<>>
    /\ LET d == Head(stack)
           kept == {x \in SubDirs(tree, d) : KeepDir(x)}
           py == {f \in Files(tree, d) : IsPythonFile(f)}
       IN \E fo \in Orders(py), do \in Orders(kept) :
            /\ python_files' = python_files \o [j \in 1..Len(fo) |-> Join(DirStr(d), fo[j])]
            /\ stack' = [j \in 1..Len(do) |-> Append(d, do[j])] \o Tail(stack)
            /\ visited' = Append(visited, d)
    /\ UNCHANGED <<tree, fs, mode, run, pc, queue, idx, total_w293, total_w291,
                   files_fixed, filepath, lines, original_lines, i, w293_count,
                   w291_count, ret, stdout, stderr, disk0, opened, calls, hits, past>>

\* line 66: return python_files
FindReturn ==
    /\ pc = "walk"
    /\ stack = <<>>
    /\ pc' = "found"
    /\ UNCHANGED <<tree, fs, mode, run, stack, visited, python_files, queue, idx,
                   total_w293, total_w291, files_fixed, filepath, lines,
                   original_lines, i, w293_count, w291_count, ret, stdout, stderr,
                   disk0, opened, calls, hits, past>>

-----------------------------------------------------------------------------
(* fix_whitespace_in_file *)

\* lines 15-17 and 22-24: the file opens and is read
ReadOk ==
    /\ pc = "read"
    /\ mode[filepath] # "noread"
    /\ lines' = ReadLines(fs[filepath])
    /\ original_lines' = ReadLines(fs[filepath])
    /\ w293_count' = 0
    /\ w291_count' = 0
    /\ i' = 1
    /\ hits' = <<>>
    /\ pc' = "scan"
    /\ UNCHANGED <<tree, fs, mode, run, stack, visited, python_files, queue, idx,
                   total_w293, total_w291, files_fixed, filepath, ret, stdout,
                   stderr, disk0, opened, calls, past>>

\* lines 18-20: the open or the read raises
ReadFail ==
    /\ pc = "read"
    /\ mode[filepath] = "noread"
    /\ stdout' = Append(stdout, Out("Error reading", filepath, 0, 0))
    /\ ret' = <<0, 0>>
    /\ calls' = Append(calls, Call(filepath, 0, 0, TRUE))
    /\ lines' = <<>> /\ original_lines' = <<>>
    /\ w293_count' = 0 /\ w291_count' = 0 /\ i' = 0
    /\ hits' = <<>>
    /\ pc' = "ret"
    /\ UNCHANGED <<tree, fs, mode, run, stack, visited, python_files, queue, idx,
                   total_w293, total_w291, files_fixed, filepath, stderr, disk0,
                   opened, past>>

\* lines 26-41: one iteration of the for loop
ProcessLine ==
    /\ pc = "scan"
    /\ i <= Len(lines)
    /\ LET r == FixLine(lines[i])
       IN /\ lines' = [lines EXCEPT ![i] = r.out]
          /\ w293_count' = w293_count + r.d293
          /\ w291_count' = w291_count + r.d291
          /\ hits' = Append(hits, <<r.d293, r.d291>>)
    /\ i' = i + 1
    /\ UNCHANGED <<tree, fs, mode, run, pc, stack, visited, python_files, queue,
                   idx, total_w293, total_w291, files_fixed, filepath,
                   original_lines, ret, stdout, stderr, disk0, opened, calls, past>>

\* lines 44 and 52: nothing changed, return the counts
NoWrite ==
    /\ pc = "scan"
    /\ i > Len(lines)
    /\ ~Changed(lines, original_lines)
    /\ ret' = <<w293_count, w291_count>>
    /\ calls' = Append(calls, Call(filepath, w293_count, w291_count, FALSE))
    /\ pc' = "ret"
    /\ UNCHANGED <<tree, fs, mode, run, stack, visited, python_files, queue, idx,
                   total_w293, total_w291, files_fixed, filepath, lines,
                   original_lines, i, w293_count, w291_count, stdout, stderr,
                   disk0, opened, hits, past>>

\* lines 44-47 and 52: the file opens for writing and is rewritten
WriteOk ==
    /\ pc = "scan"
    /\ i > Len(lines)
    /\ Changed(lines, original_lines)
    /\ mode[filepath] \notin {"nowrite", "wfail"}
    /\ opened' = opened \cup {filepath}
    /\ fs' = [fs EXCEPT ![filepath] = WriteLines(lines)]
    /\ ret' = <<w293_count, w291_count>>
    /\ calls' = Append(calls, Call(filepath, w293_count, w291_count, FALSE))
    /\ pc' = "ret"
    /\ UNCHANGED <<tree, mode, run, stack, visited, python_files, queue, idx,
                   total_w293, total_w291, files_fixed, filepath, lines,
                   original_lines, i, w293_count, w291_count, stdout, stderr,
                   disk0, hits, past>>

\* variant: the counts are returned although the write failed
WriteFail_KeepCounts ==
    /\ pc = "scan"
    /\ i > Len(lines)
    /\ Changed(lines, original_lines)
    /\ mode[filepath] = "nowrite"
    /\ opened' = opened \cup {filepath}
    /\ stdout' = Append(stdout, Out("Error writing", filepath, 0, 0))
    /\ ret' = <<w293_count, w291_count>>
    /\ calls' = Append(calls, Call(filepath, w293_count, w291_count, TRUE))
    /\ pc' = "ret"
    /\ UNCHANGED <<tree, fs, mode, run, stack, visited, python_files, queue, idx,
                   total_w293, total_w291, files_fixed, filepath, lines,
                   original_lines, i, w293_count, w291_count, stderr, disk0, hits, past>>

\* lines 44-50: open(filepath, 'w') has truncated the file, then
\* f.writelines, the flush at close or the close itself raises: a prefix of
\* the data is on disk, from none of it to all of it
WriteRaise ==
    /\ pc = "scan"
    /\ i > Len(lines)
    /\ Changed(lines, original_lines)
    /\ mode[filepath] = "wfail"
    /\ \E k \in 0..Len(WriteLines(lines)) :
          fs' = [fs EXCEPT ![filepath] = SubSeq(WriteLines(lines), 1, k)]
    /\ opened' = opened \cup {filepath}
    /\ stdout' = Append(stdout, Out("Error writing", filepath, 0, 0))
    /\ ret' = <<0, 0>>
    /\ calls' = Append(calls, Call(filepath, 0, 0, TRUE))
    /\ pc' = "ret"
    /\ UNCHANGED <<tree, mode, run, stack, visited, python_files, queue, idx,
                   total_w293, total_w291, files_fixed, filepath, lines,
                   original_lines, i, w293_count, w291_count, stderr, disk0,
                   hits, past>>

\* lines 44-50: open(filepath, 'w') raises, the file is as it was
WriteFail ==
    /\ pc = "scan"
    /\ i > Len(lines)
    /\ Changed(lines, original_lines)
    /\ mode[filepath] = "nowrite"
    /\ opened' = opened \cup {filepath}
    /\ stdout' = Append(stdout, Out("Error writing", filepath, 0, 0))
    /\ ret' = <<0, 0>>
    /\ calls' = Append(calls, Call(filepath, 0, 0, TRUE))
    /\ pc' = "ret"
    /\ UNCHANGED <<tree, fs, mode, run, stack, visited, python_files, queue, idx,
                   total_w293, total_w291, files_fixed, filepath, lines,
                   original_lines, i, w293_count, w291_count, stderr, disk0, hits, past>>

-----------------------------------------------------------------------------
(* main *)

\* lines 74-81: the two header lines, the totals, the sorted list
MainBegin ==
    /\ pc = "found"
    /\ stdout' = stdout \o << Out("Found", <<>>, Len(python_files), 0),
                              Out("Fixing", <<>>, 0, 0) >>
    /\ total_w293' = 0 /\ total_w291' = 0 /\ files_fixed' = 0
    /\ queue' = Sorted(python_files)
    /\ idx' = 1
    /\ pc' = "loop"
    /\ UNCHANGED <<tree, fs, mode, run, stack, visited, python_files, filepath,
                   lines, original_lines, i, w293_count, w291_count, ret, stderr,
                   disk0, opened, calls, hits, past>>

\* lines 81-82: the next file is handed to fix_whitespace_in_file
MainCall ==
    /\ pc = "loop"
    /\ idx <= Len(queue)
    /\ filepath' = queue[idx]
    /\ pc' = "read"
    /\ UNCHANGED <<tree, fs, mode, run, stack, visited, python_files, queue, idx,
                   total_w293, total_w291, files_fixed, lines, original_lines, i,
                   w293_count, w291_count, ret, stdout, stderr, disk0, opened,
                   calls, hits, past>>

\* lines 82-88: the call has returned
MainAccumulate ==
    /\ pc = "ret"
    /\ IF ret[1] > 0 \/ ret[2] > 0
       THEN /\ files_fixed' = files_fixed + 1
            /\ total_w293' = total_w293 + ret[1]
            /\ total_w291' = total_w291 + ret[2]
            /\ stdout' = Append(stdout, Out("Fixed", filepath, ret[1], ret[2]))
       ELSE UNCHANGED <<files_fixed, total_w293, total_w291, stdout>>
    /\ idx' = idx + 1
    /\ pc' = "loop"
    /\ UNCHANGED <<tree, fs, mode, run, stack, visited, python_files, queue,
                   filepath, lines, original_lines, i, w293_count, w291_count,
                   ret, stderr, hits, past, disk0, opened, calls>>

\* lines 90-95: the loop is over, the summary is printed
MainSummary ==
    /\ pc = "loop"
    /\ idx > Len(queue)
    /\ stdout' = stdout \o SummaryLines(Len(python_files), files_fixed,
                                        total_w293, total_w291)
    /\ pc' = "done"
    /\ UNCHANGED <<tree, fs, mode, run, stack, visited, python_files, queue, idx,
                   total_w293, total_w291, files_fixed, filepath, lines,
                   original_lines, i, w293_count, w291_count, ret, stderr, disk0,
                   opened, calls, hits, past>>

\* lines 98-99: the script is started again on the tree it left behind
Rerun ==
    /\ pc = "done"
    /\ run < MaxRuns
    /\ run' = run + 1
    /\ pc' = "walk"
    /\ stack' = << <<>> >>
    /\ visited' = <<>>
    /\ python_files' = <<>>
    /\ queue' = <<>>
    /\ idx' = 0
    /\ total_w293' = 0 /\ total_w291' = 0 /\ files_fixed' = 0
    /\ filepath' = <<>>
    /\ lines' = <<>> /\ original_lines' = <<>>
    /\ i' = 0
    /\ w293_count' = 0 /\ w291_count' = 0
    /\ ret' = <<0, 0>>
    /\ stdout' = <<>> /\ stderr' = <<>>
    /\ hits' = <<>>
    /\ past' = Append(past, [fixed |-> files_fixed,
                             failures |-> Cardinality({j \in DOMAIN calls : calls[j].failed})])
    /\ disk0' = fs
    /\ opened' = {}
    /\ calls' = <<>>
    /\ UNCHANGED <<tree, fs, mode>>

-----------------------------------------------------------------------------
(* Specifications *)

Next ==
    \/ WalkStep
    \/ FindReturn
    \/ MainBegin
    \/ MainCall
    \/ ReadOk
    \/ ReadFail
    \/ ProcessLine
    \/ NoWrite
    \/ WriteOk
    \/ WriteFail
    \/ WriteRaise
    \/ MainAccumulate
    \/ MainSummary
    \/ Rerun

Spec == Init /\ [][Next]_vars

NextFind == WalkStep \/ FindReturn

SpecFind == InitFind /\ [][NextFind]_vars

-----------------------------------------------------------------------------
(* Helpers of the properties *)

RECURSIVE SumOf(_, _)
\* the sum of field k (1 = a, 2 = b) over a sequence of call records
SumOf(cs, k) ==
    IF cs = <<>> THEN 0
    ELSE (IF k = 1 THEN Head(cs).a ELSE Head(cs).b) + SumOf(Tail(cs), k)

IsErrorLine(o) == o.kind \in {"Error reading", "Error writing"}
NotErrorLine(o) == ~IsErrorLine(o)
IsFailedCall(c) == c.failed
IsFixedCall(c) == c.a > 0 \/ c.b > 0

Failures == Cardinality({j \in DOMAIN calls : calls[j].failed})

\* a raw file content cut into lines, every line with the terminator it has on disk
RECURSIVE RawLines(_)
RawLines(s) ==
    IF s = <<>> THEN <<>>
    ELSE LET brk == {k \in 1..Len(s) : s[k] \in {CR, LF}}
         IN IF brk = {} THEN <<s>>
            ELSE LET k == CHOOSE x \in brk : \A y \in brk : x <= y
                     e == IF s[k] = CR /\ k < Len(s) /\ s[k + 1] = LF THEN k + 1 ELSE k
                 IN <<SubSeq(s, 1, e)>> \o RawLines(SubSeq(s, e + 1, Len(s)))

Terminator(l) ==
    IF EndsWith(l, <<CR, LF>>) THEN "crlf"
    ELSE IF EndsWith(l, <<LF>>) THEN "lf"
    ELSE IF EndsWith(l, <<CR>>) THEN "cr"
    ELSE "none"

TermOf(l) ==
    IF EndsWith(l, <<CR, LF>>) THEN <<CR, LF>>
    ELSE IF EndsWith(l, <<LF>>) THEN <<LF>>
    ELSE <<>>

\* the line without its terminator
Body(l) == SubSeq(l, 1, Len(l) - Len(TermOf(l)))

IsBlankChar(c) == c = SP \/ c = TAB

\* one or more spaces or tabs and nothing else before the terminator
IsWhitespaceOnly(l) ==
    Len(Body(l)) >= 1 /\ \A k \in 1..Len(Body(l)) : IsBlankChar(Body(l)[k])

HasContent(l) == \E k \in 1..Len(Body(l)) : ~IsBlankChar(Body(l)[k])

LastContent(l) ==
    CHOOSE k \in 1..Len(Body(l)) :
        /\ ~IsBlankChar(Body(l)[k])
        /\ \A m \in (k + 1)..Len(Body(l)) : IsBlankChar(Body(l)[m])

ExcludedName(d) == d[1] = "." \/ d \in {N_pycache, N_venv, N_env, N_build, N_dist}

\* the files the discovery is to return: '.py' files with no excluded ancestor
ExpectedFiles(t) ==
    {PathStr(n.path) : n \in {m \in FileNodes(t) :
        /\ Len(Last(m.path)) >= 3
        /\ SubSeq(Last(m.path), Len(Last(m.path)) - 2, Len(Last(m.path))) = <<".", "p", "y">>
        /\ \A k \in 1..(Len(m.path) - 1) : ~ExcludedName(m.path[k])}}

InFix == pc \in {"scan", "ret"} /\ mode[filepath] # "noread"

-----------------------------------------------------------------------------
(* Properties *)

\* C1: after a successful read, fix_whitespace_in_file opens the file for
\* writing if and only if a line matched one of the two rules; when none
\* matched, the content on disk is what it was before the call.
C1_WriteIffFixed ==
    /\ (pc \in {"read", "scan"}) => filepath \notin opened
    /\ (pc = "ret" /\ mode[filepath] # "noread") =>
          /\ (filepath \in opened) <=> (w293_count + w291_count > 0)
          /\ (w293_count + w291_count = 0) => fs[filepath] = disk0[filepath]

C1_Witness ==
    /\ pc = "ret" /\ mode[filepath] = "ok"
    /\ w293_count + w291_count = 0
    /\ original_lines = << <<SP, "a", LF>> >>
    /\ fs[filepath] = <<SP, "a", CR, LF>>
    /\ filepath \notin opened

\* C2: when the first run of main met no read or write failure, a later run
\* reports no fix for any file, opens no file for writing and leaves every
\* file as the first run left it.
C2_Idempotent ==
    (run >= 2 /\ past[1].failures = 0) =>
        /\ fs = disk0
        /\ opened = {}
        /\ \A j \in DOMAIN calls : calls[j].a = 0 /\ calls[j].b = 0 /\ ~calls[j].failed
        /\ w293_count = 0 /\ w291_count = 0
        /\ total_w293 = 0 /\ total_w291 = 0 /\ files_fixed = 0
        /\ \A j \in DOMAIN stdout : stdout[j].kind # "Fixed"

C2_Witness ==
    /\ run = 2 /\ pc = "done"
    /\ past[1].failures = 0 /\ past[1].fixed >= 2
    /\ Len(calls) >= 2

\* C3: every line of the file after a call of fix_whitespace_in_file that
\* met no failure has the terminator the same line had before:
\* carriage-return+line-feed, line-feed, or none.
C3_TerminatorsPreserved ==
    (pc = "ret" /\ mode[filepath] = "ok") =>
        LET old == RawLines(disk0[filepath])
            new == RawLines(fs[filepath])
        IN \A j \in 1..Len(old) :
              (j <= Len(new) /\ Terminator(old[j]) \in {"crlf", "lf", "none"})
                  => Terminator(new[j]) = Terminator(old[j])

\* C4: main calls fix_whitespace_in_file once on every file of the sorted
\* list, in order; a call that fails on read or write returns (0, 0) and
\* adds nothing to the totals or to the files-fixed count; the loop goes on:
\* a failing read or write has its handler to step into, a returned call is
\* taken up by main, the loop always has a next file or the summary to go
\* to, and at the summary every file has been called.
C4_Containment ==
    /\ (pc \in {"loop", "read", "scan", "ret", "done"}) =>
          /\ Len(calls) = (IF pc = "ret" THEN idx ELSE idx - 1)
          /\ Len(calls) <= Len(queue)
          /\ \A j \in DOMAIN calls : calls[j].path = queue[j]
    /\ \A j \in DOMAIN calls :
          /\ (mode[calls[j].path] = "noread") => calls[j].failed
          /\ (mode[calls[j].path] = "ok") => ~calls[j].failed
          /\ calls[j].failed => (calls[j].a = 0 /\ calls[j].b = 0)
    /\ (pc \in {"loop", "done"}) =>
          LET good == SelectSeq(calls, LAMBDA c : ~c.failed)
          IN /\ total_w293 = SumOf(good, 1)
             /\ total_w291 = SumOf(good, 2)
             /\ files_fixed = Len(SelectSeq(good, IsFixedCall))
    /\ (pc = "read" /\ mode[filepath] = "noread") => ENABLED ReadFail
    /\ (pc = "scan" /\ i > Len(lines) /\ lines # original_lines
           /\ mode[filepath] = "nowrite") => ENABLED WriteFail
    /\ (pc = "scan" /\ i > Len(lines) /\ lines # original_lines
           /\ mode[filepath] = "wfail")
          => ENABLED WriteRaise
    /\ (pc = "ret") => ENABLED MainAccumulate
    /\ (pc = "loop") => ENABLED (MainCall \/ MainSummary)
    /\ (pc = "done") =>
          /\ Len(calls) = Len(queue)
          /\ Len(stdout) >= 6
          /\ SubSeq(stdout, Len(stdout) - 5, Len(stdout))
                = SummaryLines(Len(queue), files_fixed, total_w293, total_w291)


C4_Witness ==
    /\ pc = "done"
    /\ \E j, k \in DOMAIN calls :
          /\ j < k
          /\ calls[j].failed
          /\ ~calls[k].failed /\ calls[k].a + calls[k].b > 0

\* C5: every read or write failure puts exactly one diagnostic line on the
\* error stream and none on standard output, which carries only the
\* discovery line, the 'Fixing' line, the 'Fixed' lines and the summary.
C5_ErrorsOnStderr ==
    /\ \A j \in DOMAIN stdout :
          stdout[j].kind \in {"Found", "Fixing", "Fixed", "Summary",
                              "Files processed", "Files fixed", "Total W293",
                              "Total W291", "Total"}
    /\ Len(SelectSeq(stderr, IsErrorLine)) = Failures

\* what the code does with its diagnostics (print() on lines 19 and 49):
\* every read or write failure puts exactly one line, naming the file and
\* the kind of failure, on standard output, and nothing goes to the error
\* stream.
DiagnosticsOnStdout ==
    LET errs == SelectSeq(stdout, IsErrorLine)
        bad == SelectSeq(calls, IsFailedCall)
    IN /\ stderr = <<>>
       /\ Len(errs) = Len(bad)
       /\ \A j \in DOMAIN errs :
             /\ errs[j].path = bad[j].path
             /\ errs[j].kind = (IF mode[bad[j].path] = "noread"
                                THEN "Error reading" ELSE "Error writing")
       /\ \A j \in DOMAIN stdout :
             stdout[j].kind \in {"Found", "Fixing", "Fixed", "Summary",
                                 "Files processed", "Files fixed", "Total W293",
                                 "Total W291", "Total", "Error reading",
                                 "Error writing"}

\* C6: the output of a run is the 'Found N' line, the 'Fixing' line, one
\* 'Fixed' line for every file whose call returned a count above zero and no
\* line for any other file, in ascending path order whatever order the
\* discovery returned, then the summary with N files processed, as many
\* files fixed as 'Fixed' lines, and the sums of the returned counts.
C6_Report ==
    (pc = "done") =>
        LET fixed == SelectSeq(calls, IsFixedCall)
        IN /\ stdout
                = << Out("Found", <<>>, Len(python_files), 0),
                     Out("Fixing", <<>>, 0, 0) >>
                  \o [j \in 1..Len(fixed) |->
                         Out("Fixed", fixed[j].path, fixed[j].a, fixed[j].b)]
                  \o SummaryLines(Len(python_files), Len(fixed),
                                  SumOf(fixed, 1), SumOf(fixed, 2))
           /\ \A j, k \in DOMAIN calls : j < k => StrLess(calls[j].path, calls[k].path)
           /\ {calls[j].path : j \in DOMAIN calls} = {python_files[j] : j \in DOMAIN python_files}
           /\ Len(calls) = Len(python_files)

\* the report with the lines of the failing files left aside: the rest of
\* standard output is the header, the 'Fixed' lines in ascending path order
\* and the summary, with the stated numbers.
ReportBesideDiagnostics ==
    (pc = "done") =>
        LET fixed == SelectSeq(calls, IsFixedCall)
        IN /\ SelectSeq(stdout, NotErrorLine)
                = << Out("Found", <<>>, Len(python_files), 0),
                     Out("Fixing", <<>>, 0, 0) >>
                  \o [j \in 1..Len(fixed) |->
                         Out("Fixed", fixed[j].path, fixed[j].a, fixed[j].b)]
                  \o SummaryLines(Len(python_files), Len(fixed),
                                  SumOf(fixed, 1), SumOf(fixed, 2))
           /\ \A j, k \in DOMAIN calls : j < k => StrLess(calls[j].path, calls[k].path)
           /\ {calls[j].path : j \in DOMAIN calls} = {python_files[j] : j \in DOMAIN python_files}
           /\ Len(calls) = Len(python_files)

\* C7: find_python_files returns, each once, exactly the files whose name
\* ends in '.py' and that lie under no directory whose name starts with '.'
\* or is on the denylist; no such directory is ever listed.
C7_Discovery ==
    /\ \A j \in DOMAIN visited : \A k \in DOMAIN visited[j] : ~ExcludedName(visited[j][k])
    /\ (pc = "found") =>
          /\ \A j, k \in DOMAIN python_files : j # k => python_files[j] # python_files[k]
          /\ {python_files[j] : j \in DOMAIN python_files} = ExpectedFiles(tree)

C7_Witness ==
    /\ pc = "found"
    /\ [path |-> <<N_git, F_a>>, dir |-> FALSE] \in tree
    /\ [path |-> <<F_a>>, dir |-> FALSE] \in tree
    /\ python_files = << Join(Dot, F_a) >>

\* C8: every iteration of the loop raises at most one of the two counters,
\* and by one; the two counters together never exceed the number of lines
\* processed.
C8_Exclusive ==
    [][ /\ (pc' = "scan") => (w293_count' + w291_count' <= i' - 1)
        /\ (pc = "scan" /\ i' = i + 1) =>
              <<w293_count' - w293_count, w291_count' - w291_count>>
                  \in {<<0, 0>>, <<1, 0>>, <<0, 1>>} ]_vars

C8_Witness ==
    /\ pc = "scan"
    /\ i > Len(lines)
    /\ w293_count = 1 /\ w291_count = 1

\* C9: a line counts as a W293 fix exactly when it is one or more spaces or
\* tabs followed by its terminator; such a line never counts as a W291 fix.
C9_BlankClassification ==
    InFix =>
        \A j \in DOMAIN hits :
            /\ (hits[j][1] = 1) <=> IsWhitespaceOnly(original_lines[j])
            /\ IsWhitespaceOnly(original_lines[j]) => hits[j][2] = 0

\* C10: a line of the file with content and with whitespace between its
\* last content character and its terminator becomes, in the file, the line
\* up to that character plus the terminator it had, and counts as one W291
\* fix; a line with content and no such whitespace stays as it is and raises
\* no counter.
C10_TrailingRule ==
    (pc = "ret" /\ mode[filepath] = "ok") =>
        LET old == RawLines(disk0[filepath])
            new == RawLines(fs[filepath])
        IN \A j \in DOMAIN old :
              (HasContent(old[j]) /\ Terminator(old[j]) \in {"crlf", "lf", "none"}) =>
                  /\ j <= Len(new)
                  /\ j <= Len(hits)
                  /\ IF LastContent(old[j]) < Len(Body(old[j]))
                     THEN /\ new[j] = SubSeq(old[j], 1, LastContent(old[j])) \o TermOf(old[j])
                          /\ hits[j] = <<0, 1>>
                     ELSE /\ new[j] = old[j]
                          /\ hits[j] = <<0, 0>>

\* C10 for the lines as the loop holds them (after the text-mode read, where
\* a terminator is "\n" or absent): the rule of C10 with lines[j] for the
\* output line.
TrailingRuleInMemory ==
    InFix =>
        \A j \in DOMAIN hits :
            LET l == original_lines[j]
            IN HasContent(l) =>
                  IF LastContent(l) < Len(Body(l))
                  THEN /\ lines[j] = SubSeq(l, 1, LastContent(l)) \o TermOf(l)
                       /\ hits[j] = <<0, 1>>
                  ELSE /\ lines[j] = l
                       /\ hits[j] = <<0, 0>>

=============================================================================
